---- MODULE Spec2Model ----
(***************************************************************************)
(* Model of the my-api route handlers: the value-match endpoints, the      *)
(* category intersection endpoint and the keyset-paginated listings, over  *)
(* an external record store that the handlers only read.                   *)
(*                                                                         *)
(* JavaScript values are tagged records, so that null, undefined, NaN,     *)
(* strings and numbers stay distinct and every coercion the handlers       *)
(* apply (Number, parseInt, String, ||, ??) is computed, not assumed.      *)
(* Strings that the code parses or compares are sequences of one-character *)
(* strings.  Sell prices and request values are integers; the band         *)
(* 0.9*value .. 1.1*value is kept exactly, in tenths.                      *)
(***************************************************************************)
EXTENDS Integers, Sequences, FiniteSets, TLC

VARIABLES store, subcats, req, resp, queries, acc, pageNo

vars == <<store, subcats, req, resp, queries, acc, pageNo>>

-----------------------------------------------------------------------------
(* JavaScript values *)

Undefined == [t |-> "undefined"]
Null == [t |-> "null"]
NaN == [t |-> "number", k |-> "nan", n |-> 0]
PosInf == [t |-> "number", k |-> "inf", n |-> 1]
Num(n) == [t |-> "number", k |-> "fin", n |-> n]
Str(s) == [t |-> "string", s |-> s]
Bool(b) == [t |-> "boolean", b |-> b]

IsNum(x) == x.t = "number"
IsNullish(x) == x.t = "null" \/ x.t = "undefined"

\* Number.isFinite(x): a number that is neither NaN nor an infinity
NumberIsFinite(x) == x.t = "number" /\ x.k = "fin"

Digits == <<"0", "1", "2", "3", "4", "5", "6", "7", "8", "9">>

IsDigit(c) == \E i \in 1..10 : Digits[i] = c

DigitVal(c) == (CHOOSE i \in 1..10 : Digits[i] = c) - 1

\* the code unit order of the characters the model's strings are made of
CharCode(c) ==
  CASE c = "%" -> 37
    [] c = "-" -> 45
    [] IsDigit(c) -> 48 + DigitVal(c)
    [] c = "A" -> 65
    [] c = "B" -> 66
    [] c = "a" -> 97
    [] c = "b" -> 98
    [] c = "x" -> 120
    [] OTHER -> 0

RECURSIVE DigitsValue(_)
\* the value of a sequence of decimal digits
DigitsValue(s) ==
  IF s = <<>> THEN 0
  ELSE 10 * DigitsValue(SubSeq(s, 1, Len(s) - 1)) + DigitVal(s[Len(s)])

AllDigits(s) == s # <<>> /\ \A i \in 1..Len(s) : IsDigit(s[i])

\* Number(string): the whole string must be a numeral; "" is 0
StringToNumber(s) ==
  IF s = <<>> THEN Num(0)
  ELSE IF AllDigits(s) THEN Num(DigitsValue(s))
  ELSE IF s[1] = "-" /\ AllDigits(Tail(s)) THEN Num(0 - DigitsValue(Tail(s)))
  ELSE NaN

\* Number(x) for a JSON value
ToNumber(x) ==
  CASE x.t = "number" -> x
    [] x.t = "undefined" -> NaN
    [] x.t = "null" -> Num(0)
    [] x.t = "boolean" -> IF x.b THEN Num(1) ELSE Num(0)
    [] x.t = "string" -> StringToNumber(x.s)

RECURSIVE DigitPrefix(_, _)
\* the longest prefix of s made of digits below the radix
DigitPrefix(s, radix) ==
  IF s = <<>> \/ ~IsDigit(s[1]) THEN <<>>
  ELSE IF DigitVal(s[1]) >= radix THEN <<>>
  ELSE <<s[1]>> \o DigitPrefix(Tail(s), radix)

RECURSIVE RadixValue(_, _)
RadixValue(s, radix) ==
  IF s = <<>> THEN 0
  ELSE radix * RadixValue(SubSeq(s, 1, Len(s) - 1), radix) + DigitVal(s[Len(s)])

\* parseInt(s, radix): NaN for a radix outside 2..36 (0 means 10), else the
\* signed value of the longest digit prefix, NaN when there is none
ParseInt(s, radix) ==
  LET r == IF radix = 0 THEN 10 ELSE radix
      neg == s # <<>> /\ s[1] = "-"
      body == IF neg THEN Tail(s) ELSE s
      pre == DigitPrefix(body, r)
  IN IF r < 2 \/ r > 36 THEN NaN
     ELSE IF pre = <<>> THEN NaN
     ELSE IF neg THEN Num(0 - RadixValue(pre, r))
     ELSE Num(RadixValue(pre, r))

\* Math.max / Math.min of two numbers: NaN if either is NaN
MathMax(a, b) ==
  IF a.k = "nan" \/ b.k = "nan" THEN NaN
  ELSE IF a.k = "inf" \/ b.k = "inf" THEN PosInf
  ELSE IF a.n >= b.n THEN a ELSE b

MathMin(a, b) ==
  IF a.k = "nan" \/ b.k = "nan" THEN NaN
  ELSE IF a.k = "inf" THEN b
  ELSE IF b.k = "inf" THEN a
  ELSE IF a.n <= b.n THEN a ELSE b

RECURSIVE NatToString(_)
NatToString(n) ==
  IF n < 10 THEN <<Digits[n + 1]>>
  ELSE NatToString(n \div 10) \o <<Digits[(n % 10) + 1]>>

\* String(n) for an integer
IntToString(n) == IF n < 0 THEN <<"-">> \o NatToString(0 - n) ELSE NatToString(n)

RECURSIVE StrLess(_, _)
\* a < b for strings: code unit by code unit, a proper prefix first
StrLess(a, b) ==
  IF b = <<>> THEN FALSE
  ELSE IF a = <<>> THEN TRUE
  ELSE IF a[1] = b[1] THEN StrLess(Tail(a), Tail(b))
  ELSE CharCode(a[1]) < CharCode(b[1])

-----------------------------------------------------------------------------
(* The record store (external): a table is the sequence of its rows in the *)
(* order the store returns them when a query asks for no order.            *)

MaxRows == 3

\* a row of table "records"; id is assigned by the store, see WithIds
Row(rid, product, category, prnk, sell, tv) ==
  [id |-> 0, name |-> <<"a">>, record_id |-> rid, product |-> product,
   category |-> category, prnk |-> prnk, sell |-> sell, total_value |-> tv]

WithIds(rows) == [i \in 1..Len(rows) |-> [rows[i] EXCEPT !.id = i]]

RECURSIVE SeqsUpTo(_, _)
\* the sequences over S of length at most n
SeqsUpTo(S, n) ==
  IF n = 0 THEN {<<>>}
  ELSE LET shorter == SeqsUpTo(S, n - 1)
       IN shorter \cup {Append(s, x) : s \in shorter, x \in S}

\* rows that differ in band membership, selector flag, product and value
MatchPool ==
  { Row(2, "pA", "c1", 1, 90, Num(5)),
    Row(2, "pB", "c1", 1, 110, Num(-5)),
    Row(2, "pB", "c1", 0, 100, Num(7)),
    Row(2, "pA", "c1", 1, 100, Null),
    Row(9, "pA", "c1", 1, 100, Num(5)),
    Row(9, "pB", "c1", 1, 89, Num(7)),
    Row(10, "pA", "c1", 1, 110, Num(0)),
    Row(10, "pB", "c1", 1, 111, Num(5)) }

\* rows that differ in record_id and category only
CategoryPool ==
  { Row(rid, "pA", c, 1, 100, Num(5)) : rid \in {2, 10}, c \in {"c1", "c2"} }

MatchStores ==
  {WithIds(s) : s \in SeqsUpTo(MatchPool, MaxRows) \cup SeqsUpTo(CategoryPool, MaxRows)}

\* mutant of InBand: the lower bound compared with gt instead of gte
InBandExclusive(r, min10, max10) ==
  r.prnk = 1 /\ 10 * r.sell > min10 /\ 10 * r.sell <= max10

\* PostgREST filters of the queries the handlers build
InBand(r, min10, max10) == r.prnk = 1 /\ 10 * r.sell >= min10 /\ 10 * r.sell <= max10

RangeRows(rows, min10, max10) == SelectSeq(rows, LAMBDA r : InBand(r, min10, max10))

\* mutant of ProductRows: the product fetch also asks for the selector flag
ProductRowsFlagged(rows, p) == SelectSeq(rows, LAMBDA r : r.product = p /\ r.prnk = 1)

ProductRows(rows, p) == SelectSeq(rows, LAMBDA r : r.product = p)

\* the queries as they are logged
RangeQuery(min10, max10, products, order) ==
  [kind |-> "range", prnk |-> 1, minSell10 |-> min10, maxSell10 |-> max10,
   products |-> products, order |-> order]

ProductQuery(p) == [kind |-> "product", product |-> p]

-----------------------------------------------------------------------------
(* Responses *)

NoResp == [kind |-> "none", status |-> 0]
ErrorResp(st, msg) == [kind |-> "error", status |-> st, error |-> msg]
ResultsResp(rs) == [kind |-> "results", status |-> 200, results |-> rs]
CountedResp(rs) ==
  [kind |-> "counted", status |-> 200, results |-> rs, number_of_results |-> Len(rs)]
\* {records: page, nextCursor}, or {items: page, nextCursor}: key names the field
PageResp(key, page, nc) ==
  [kind |-> "page", status |-> 200, key |-> key, records |-> page, nextCursor |-> nc]

Out(r, log) == [resp |-> r, queries |-> log]

\* what the store's error object carries
StoreError == "store error"

-----------------------------------------------------------------------------
(* Map and sort as JavaScript has them: a Map iterates in insertion order, *)
(* Array.prototype.sort is stable.                                         *)

MapHas(m, k) == \E i \in 1..Len(m) : m[i].key = k

\* Map.prototype.get: undefined for a key the Map does not hold
MapGet(m, k) ==
  IF MapHas(m, k) THEN m[CHOOSE i \in 1..Len(m) : m[i].key = k].val ELSE Undefined

MapSet(m, k, v) ==
  IF MapHas(m, k)
  THEN [i \in 1..Len(m) |-> IF m[i].key = k THEN [key |-> k, val |-> v] ELSE m[i]]
  ELSE Append(m, [key |-> k, val |-> v])

MapKeys(m) == [i \in 1..Len(m) |-> m[i].key]

\* x ?? 0 for a total_value
OrZero(x) == IF IsNullish(x) THEN Num(0) ELSE x

RECURSIVE InsertDesc(_, _)
\* x placed before the first entry whose total_value is smaller than x's
InsertDesc(sorted, x) ==
  IF sorted = <<>> THEN <<x>>
  ELSE IF OrZero(x.total_value).n > OrZero(sorted[1].total_value).n
       THEN <<x>> \o sorted
       ELSE <<sorted[1]>> \o InsertDesc(Tail(sorted), x)

\* mutant of SortDesc: the entries left in Map order
SortDescOmitted(s) == s

RECURSIVE SortDesc(_)
\* sort((a, b) => (b.total_value ?? 0) - (a.total_value ?? 0))
SortDesc(s) ==
  IF s = <<>> THEN <<>>
  ELSE InsertDesc(SortDesc(SubSeq(s, 1, Len(s) - 1)), s[Len(s)])

\* map((row, i) => ({row_number: i + 1, record_id, total_value}))
Numbered(s) ==
  [i \in 1..Len(s) |->
     [row_number |-> i, record_id |-> s[i].record_id, total_value |-> s[i].total_value]]

-----------------------------------------------------------------------------
(* Request bodies.  A body that cannot be parsed reads as {} in the        *)
(* handlers that catch the parse error with () => ({}).                    *)

\* body?.value after req.json().catch(() => ({}))
BodyValue(r) == IF r.parsed THEN r.value ELSE Undefined

\* Array.isArray(body?.products) ? body.products : []
BodyProducts(r) == IF r.parsed /\ r.products.isArray THEN r.products.items ELSE <<>>

\* slice(0, 3)
Slice3(s) == SubSeq(s, 1, IF Len(s) < 3 THEN Len(s) ELSE 3)

\* !Number.isFinite(value) || value <= 0
InvalidValue(v) == ~NumberIsFinite(v) \/ v.n <= 0

\* minSell = 0.9 * value and maxSell = 1.1 * value, in tenths
MinSell10(v) == 9 * v.n
MaxSell10(v) == 11 * v.n

Unauthorized == ErrorResp(401, "Invalid or missing API key")
BadValue == ErrorResp(400, "value must be a positive number")

-----------------------------------------------------------------------------
(* POST /api/v1/records/match, iterative: a base range fetch, then one     *)
(* fetch and one intersection per product.                                 *)

\* prev == null || (typeof r.total_value === "number" && r.total_value > prev)
BaseValueStep(m, r) ==
  IF ~MapHas(m, r.record_id)
     \/ (IsNum(r.total_value) /\ r.total_value.n > MapGet(m, r.record_id).n)
  THEN MapSet(m, r.record_id, OrZero(r.total_value))
  ELSE m

RECURSIVE BaseValueById(_)
\* the Map record_id -> total_value built over the base rows, first to last
BaseValueById(rows) ==
  IF rows = <<>> THEN <<>>
  ELSE BaseValueStep(BaseValueById(SubSeq(rows, 1, Len(rows) - 1)), rows[Len(rows)])

\* mutant of Intersect: the working set replaced by the product's ids
IntersectReplaced(ids, prodRows) == MapKeys(BaseValueById(prodRows))

\* new Set([...intersection].filter(id => prodSet.has(id)))
Intersect(ids, prodRows) ==
  SelectSeq(ids, LAMBDA id : \E i \in 1..Len(prodRows) : prodRows[i].record_id = id)

RECURSIVE ProductLoopUnchecked(_, _, _, _, _, _)
\* mutant of ProductLoop: prodErr is not looked at, a failed fetch reads as
\* prodRows ?? [] and the loop goes on to the emptiness test
ProductLoopUnchecked(rows, products, i, ids, log, failAt) ==
  IF i > Len(products) THEN [done |-> FALSE, resp |-> NoResp, ids |-> ids, log |-> log]
  ELSE IF products[i] = "" THEN ProductLoopUnchecked(rows, products, i + 1, ids, log, failAt)
  ELSE LET log2 == Append(log, ProductQuery(products[i]))
           kept == IF failAt = Len(log2) THEN <<>>
                   ELSE Intersect(ids, ProductRows(rows, products[i]))
       IN IF kept = <<>>
          THEN [done |-> TRUE, resp |-> ResultsResp(<<>>), ids |-> kept, log |-> log2]
          ELSE ProductLoopUnchecked(rows, products, i + 1, kept, log2, failAt)

RECURSIVE ProductLoopExhaustive(_, _, _, _, _, _)
\* mutant of ProductLoop: no return when the intersection is empty
ProductLoopExhaustive(rows, products, i, ids, log, failAt) ==
  IF i > Len(products) THEN [done |-> FALSE, resp |-> NoResp, ids |-> ids, log |-> log]
  ELSE IF products[i] = "" THEN ProductLoopExhaustive(rows, products, i + 1, ids, log, failAt)
  ELSE LET log2 == Append(log, ProductQuery(products[i]))
           kept == Intersect(ids, ProductRows(rows, products[i]))
       IN IF failAt = Len(log2)
          THEN [done |-> TRUE, resp |-> ErrorResp(500, StoreError), ids |-> ids, log |-> log2]
          ELSE ProductLoopExhaustive(rows, products, i + 1, kept, log2, failAt)

RECURSIVE ProductLoop(_, _, _, _, _, _)
\* for (const p of products): [done, resp, ids, log] after the loop from index i
ProductLoop(rows, products, i, ids, log, failAt) ==
  IF i > Len(products) THEN [done |-> FALSE, resp |-> NoResp, ids |-> ids, log |-> log]
  ELSE IF products[i] = "" THEN ProductLoop(rows, products, i + 1, ids, log, failAt)
  ELSE LET log2 == Append(log, ProductQuery(products[i]))
           kept == Intersect(ids, ProductRows(rows, products[i]))
       IN IF failAt = Len(log2)
          THEN [done |-> TRUE, resp |-> ErrorResp(500, StoreError), ids |-> ids, log |-> log2]
          ELSE IF kept = <<>>
          THEN [done |-> TRUE, resp |-> ResultsResp(<<>>), ids |-> kept, log |-> log2]
          ELSE ProductLoop(rows, products, i + 1, kept, log2, failAt)

\* the final results: values from baseValueById, sorted, numbered
BuildResults(ids, m) ==
  Numbered(SortDesc([i \in 1..Len(ids) |->
                       [record_id |-> ids[i], total_value |-> OrZero(MapGet(m, ids[i]))]]))

MatchIterative(rows, r, failAt) ==
  LET value == ToNumber(BodyValue(r))
      products == BodyProducts(r)
      baseQ == RangeQuery(MinSell10(value), MaxSell10(value), <<>>, "none")
      baseRows == RangeRows(rows, MinSell10(value), MaxSell10(value))
      m == BaseValueById(baseRows)
      loop == ProductLoop(rows, products, 1, MapKeys(m), <<baseQ>>, failAt)
  IN IF ~r.auth THEN Out(Unauthorized, <<>>)
     ELSE IF InvalidValue(value) THEN Out(BadValue, <<>>)
     ELSE IF Len(products) > 3
     THEN Out(ErrorResp(400, "products may have at most 3 items"), <<>>)
     ELSE IF failAt = 1 THEN Out(ErrorResp(500, StoreError), <<baseQ>>)
     ELSE IF baseRows = <<>> THEN Out(ResultsResp(<<>>), <<baseQ>>)
     ELSE IF loop.done THEN Out(loop.resp, loop.log)
     ELSE Out(ResultsResp(BuildResults(loop.ids, m)), loop.log)

-----------------------------------------------------------------------------
(* POST /api/v1/records/match, single fetch: base rows restricted to the   *)
(* requested products, grouped per record_id in memory.                    *)

\* .in("product", products) added to the range filter when products is non-empty
GroupedBaseRows(rows, min10, max10, products) ==
  SelectSeq(rows, LAMBDA r :
    /\ InBand(r, min10, max10)
    /\ (products = <<>> \/ \E i \in 1..Len(products) : products[i] = r.product))

\* Number(r.total_value) || 0
NumberOrZero(x) ==
  LET n == ToNumber(x) IN IF n.k = "nan" \/ (n.k = "fin" /\ n.n = 0) THEN Num(0) ELSE n

\* one row into the Map record_id -> {set, maxTotal}; a new entry starts at maxTotal 0
GroupStep(m, r) ==
  LET entry == IF MapHas(m, r.record_id) THEN MapGet(m, r.record_id)
               ELSE [set |-> {}, maxTotal |-> Num(0)]
      set2 == IF r.product # "" THEN entry.set \cup {r.product} ELSE entry.set
      tv == NumberOrZero(r.total_value)
      max2 == IF tv.n > entry.maxTotal.n THEN tv ELSE entry.maxTotal
  IN MapSet(m, r.record_id, [set |-> set2, maxTotal |-> max2])

RECURSIVE GroupByRecord(_)
GroupByRecord(rows) ==
  IF rows = <<>> THEN <<>>
  ELSE GroupStep(GroupByRecord(SubSeq(rows, 1, Len(rows) - 1)), rows[Len(rows)])

\* the entries whose product set holds every requested product
KeptWithProducts(m, products) ==
  LET ok == SelectSeq(m, LAMBDA e : \A i \in 1..Len(products) : products[i] \in e.val.set)
  IN [i \in 1..Len(ok) |-> [record_id |-> ok[i].key, total_value |-> ok[i].val.maxTotal]]

\* one row into the Map record_id -> total_value of the no-products branch
MaxStep(m, r) ==
  LET tv == NumberOrZero(r.total_value)
  IN IF ~MapHas(m, r.record_id) \/ tv.n > MapGet(m, r.record_id).n
     THEN MapSet(m, r.record_id, tv)
     ELSE m

RECURSIVE MaxByRecord(_)
MaxByRecord(rows) ==
  IF rows = <<>> THEN <<>>
  ELSE MaxStep(MaxByRecord(SubSeq(rows, 1, Len(rows) - 1)), rows[Len(rows)])

KeptNoProducts(m) ==
  [i \in 1..Len(m) |-> [record_id |-> m[i].key, total_value |-> m[i].val]]

MatchGrouped(rows, r, failAt) ==
  LET value == ToNumber(BodyValue(r))
      products == Slice3(BodyProducts(r))
      baseQ == RangeQuery(MinSell10(value), MaxSell10(value), products, "none")
      baseRows == GroupedBaseRows(rows, MinSell10(value), MaxSell10(value), products)
      kept == IF products # <<>> THEN KeptWithProducts(GroupByRecord(baseRows), products)
              ELSE KeptNoProducts(MaxByRecord(baseRows))
  IN IF ~r.auth THEN Out(Unauthorized, <<>>)
     ELSE IF InvalidValue(value) THEN Out(BadValue, <<>>)
     ELSE IF failAt = 1 THEN Out(ErrorResp(500, StoreError), <<baseQ>>)
     ELSE IF baseRows = <<>> THEN Out(ResultsResp(<<>>), <<baseQ>>)
     ELSE Out(ResultsResp(Numbered(SortDesc(kept))), <<baseQ>>)

-----------------------------------------------------------------------------
(* POST /api/v1/records/by-value: the band rows as the store orders them   *)
(* by total_value descending, distinct on (record_id, total_value).        *)

\* a before b in ORDER BY total_value DESC: the store sorts null as larger
\* than every number, so nulls come first
StoreDescBefore(a, b) ==
  IF IsNullish(a) THEN ~IsNullish(b)
  ELSE IF IsNullish(b) THEN FALSE
  ELSE a.n > b.n

RECURSIVE StoreInsertDesc(_, _)
StoreInsertDesc(sorted, x) ==
  IF sorted = <<>> THEN <<x>>
  ELSE IF StoreDescBefore(x.total_value, sorted[1].total_value) THEN <<x>> \o sorted
  ELSE <<sorted[1]>> \o StoreInsertDesc(Tail(sorted), x)

RECURSIVE StoreOrderDesc(_)
\* .order("total_value", {ascending: false}); equal values keep the store's order
StoreOrderDesc(rows) ==
  IF rows = <<>> THEN <<>>
  ELSE StoreInsertDesc(StoreOrderDesc(SubSeq(rows, 1, Len(rows) - 1)), rows[Len(rows)])

\* the key `${r.record_id}::${r.total_value}` decides equality of two rows
SameKey(a, b) == a.record_id = b.record_id /\ a.total_value = b.total_value

\* filter with the seen set: the first row of every key
Distinct(rows) ==
  LET keep == {i \in 1..Len(rows) : \A j \in 1..(i - 1) : ~SameKey(rows[j], rows[i])}
      idx == SelectSeq([i \in 1..Len(rows) |-> i], LAMBDA i : i \in keep)
  IN [k \in 1..Len(idx) |-> rows[idx[k]]]

ByValueQuery(rows, value, failAt) ==
  LET q == RangeQuery(MinSell10(value), MaxSell10(value), <<>>, "total_value.desc")
      data == StoreOrderDesc(RangeRows(rows, MinSell10(value), MaxSell10(value)))
  IN IF failAt = 1 THEN Out(ErrorResp(500, StoreError), <<q>>)
     ELSE Out(CountedResp(Numbered(Distinct(data))), <<q>>)

\* the handler that coerces: value = Number(body?.value)
ByValueCoercing(rows, r, failAt) ==
  LET value == ToNumber(BodyValue(r))
  IN IF ~r.auth THEN Out(Unauthorized, <<>>)
     ELSE IF InvalidValue(value) THEN Out(BadValue, <<>>)
     ELSE ByValueQuery(rows, value, failAt)

\* the handler that takes value only when typeof v === "number"
TypedValue(r) == IF r.parsed /\ r.value.t = "number" THEN r.value ELSE Null

ByValueTyped(rows, r, failAt) ==
  LET value == TypedValue(r)
  IN IF ~r.auth THEN Out(Unauthorized, <<>>)
     ELSE IF value = Null \/ InvalidValue(value) THEN Out(BadValue, <<>>)
     ELSE ByValueQuery(rows, value, failAt)

-----------------------------------------------------------------------------
(* POST /api/v1/records/intersect-by-category *)

\* categories as parsed: the first three when the body holds an array of
\* strings, else none
ParsedCategories(r) ==
  IF r.parsed /\ r.categories.isArray
     /\ \A i \in 1..Len(r.categories.items) : r.categories.items[i].t = "string"
  THEN Slice3([i \in 1..Len(r.categories.items) |-> r.categories.items[i].a])
  ELSE <<>>

CategoryQuery(cats) == [kind |-> "category", categories |-> cats]

\* .in("category", categories)
CategoryRows(rows, cats) ==
  SelectSeq(rows, LAMBDA r : \E i \in 1..Len(cats) : cats[i] = r.category)

\* one row into the Map String(record_id) -> set of categories seen
CategoryStep(m, r) ==
  LET rid == IntToString(r.record_id)
      set == IF MapHas(m, rid) THEN MapGet(m, rid) ELSE {}
  IN MapSet(m, rid, set \cup {r.category})

RECURSIVE CategoriesById(_)
CategoriesById(rows) ==
  IF rows = <<>> THEN <<>>
  ELSE CategoryStep(CategoriesById(SubSeq(rows, 1, Len(rows) - 1)), rows[Len(rows)])

\* mutant of Hits: a record_id is kept when it has any required category
HitsAny(m, cats) ==
  MapKeys(SelectSeq(m, LAMBDA e : \E i \in 1..Len(cats) : cats[i] \in e.val))

\* the record_ids that have all required categories, in Map order
Hits(m, cats) ==
  MapKeys(SelectSeq(m, LAMBDA e : \A i \in 1..Len(cats) : cats[i] \in e.val))

RECURSIVE InsertAsc(_, _)
InsertAsc(sorted, x) ==
  IF sorted = <<>> THEN <<x>>
  ELSE IF StrLess(x, sorted[1]) THEN <<x>> \o sorted
  ELSE <<sorted[1]>> \o InsertAsc(Tail(sorted), x)

RECURSIVE SortStrings(_)
\* hits.sort(): ascending by code units
SortStrings(s) ==
  IF s = <<>> THEN <<>>
  ELSE InsertAsc(SortStrings(SubSeq(s, 1, Len(s) - 1)), s[Len(s)])

NumberedIds(hits) == [i \in 1..Len(hits) |-> [row_number |-> i, record_id |-> hits[i]]]

IntersectByCategory(rows, r, failAt) ==
  LET categories == ParsedCategories(r)
      q == CategoryQuery(categories)
      data == CategoryRows(rows, categories)
  IN IF ~r.auth THEN Out(Unauthorized, <<>>)
     ELSE IF categories = <<>>
     THEN Out(ErrorResp(400, "categories must be a non-empty array (max 3)"), <<>>)
     ELSE IF failAt = 1 THEN Out(ErrorResp(500, StoreError), <<q>>)
     ELSE IF data = <<>> THEN Out(CountedResp(<<>>), <<q>>)
     ELSE Out(CountedResp(NumberedIds(SortStrings(Hits(CategoriesById(data), categories)))),
              <<q>>)

-----------------------------------------------------------------------------
(* Requests and the specification of the POST endpoints *)

JsonValues ==
  { Undefined, Null, Num(100), Num(0), Num(-100), PosInf,
    Str(<<"1", "0", "0">>), Str(<<"a", "b">>), Bool(TRUE) }

NoArray == [isArray |-> FALSE, items |-> <<>>]
Array(items) == [isArray |-> TRUE, items |-> items]

ProductLists ==
  { <<>>, <<"pA">>, <<"pB">>, <<"pA", "pB">>, <<"pB", "pA">>, <<"pA", "">>,
    <<"pA", "pA">>, <<"pC", "pA">>, <<"pA", "pB", "pA">>, <<"pB", "pB", "pA">>,
    <<"pA", "pB", "pA", "pC">>, <<"pA", "pA", "pA", "pB">> }

MatchBody(auth, parsed, value, products) ==
  [auth |-> auth, parsed |-> parsed, value |-> value, products |-> products]

MatchRequests ==
  {MatchBody(TRUE, TRUE, v, NoArray) : v \in JsonValues}
    \cup {MatchBody(TRUE, TRUE, Num(100), Array(p)) : p \in ProductLists}
    \cup {MatchBody(TRUE, TRUE, Num(0), Array(<<"pA", "pB", "pA", "pC">>)),
          MatchBody(TRUE, FALSE, Undefined, NoArray),
          MatchBody(FALSE, TRUE, Num(100), NoArray)}

ValueRequests ==
  {MatchBody(TRUE, TRUE, v, NoArray) : v \in JsonValues}
    \cup {MatchBody(TRUE, FALSE, Undefined, NoArray),
          MatchBody(FALSE, TRUE, Num(100), NoArray)}

Atom(a) == [t |-> "string", a |-> a]

CategoryLists ==
  { <<>>, <<Atom("c1")>>, <<Atom("c2")>>, <<Atom("c1"), Atom("c2")>>,
    <<Atom("c2"), Atom("c1"), Atom("c2")>>, <<Atom("c1"), Atom("c3")>>,
    <<Atom("c1"), Num(7)>>, <<Atom("c1"), Atom("c1"), Atom("c1"), Atom("c2")>>,
    <<Atom("c3"), Atom("c3"), Atom("c3"), Atom("c1")>> }

CategoryBody(auth, parsed, categories) ==
  [auth |-> auth, parsed |-> parsed, categories |-> categories]

CategoryRequests ==
  {CategoryBody(TRUE, TRUE, Array(c)) : c \in CategoryLists}
    \cup {CategoryBody(TRUE, TRUE, NoArray), CategoryBody(TRUE, FALSE, NoArray),
          CategoryBody(FALSE, TRUE, Array(<<Atom("c1")>>))}

\* failAt is the number of the store query of this request that the store
\* fails; 0 when it fails none
Handle(endpoint, r, failAt, out) ==
  /\ resp = NoResp
  /\ req' = [endpoint |-> endpoint, body |-> r, failAt |-> failAt]
  /\ resp' = out.resp
  /\ queries' = out.queries
  /\ UNCHANGED <<store, subcats, acc, pageNo>>

MatchPOST ==
  \E r \in MatchRequests : \E failAt \in 0..4 :
    Handle("match", r, failAt, MatchIterative(store, r, failAt))

MatchGroupedPOST ==
  \E r \in MatchRequests : \E failAt \in 0..1 :
    Handle("match-grouped", r, failAt, MatchGrouped(store, r, failAt))

ByValuePOST ==
  \E r \in ValueRequests : \E failAt \in 0..1 :
    Handle("by-value", r, failAt, ByValueCoercing(store, r, failAt))

ByValueTypedPOST ==
  \E r \in ValueRequests : \E failAt \in 0..1 :
    Handle("byvalue", r, failAt, ByValueTyped(store, r, failAt))

IntersectByCategoryPOST ==
  \E r \in CategoryRequests : \E failAt \in 0..1 :
    Handle("intersect-by-category", r, failAt, IntersectByCategory(store, r, failAt))

Init ==
  /\ store \in MatchStores
  /\ subcats = <<>>
  /\ req = [endpoint |-> "none"]
  /\ resp = NoResp
  /\ queries = <<>>
  /\ acc = <<>>
  /\ pageNo = 0

Next ==
  \/ MatchPOST
  \/ MatchGroupedPOST
  \/ ByValuePOST
  \/ ByValueTypedPOST
  \/ IntersectByCategoryPOST

Spec == Init /\ [][Next]_vars

-----------------------------------------------------------------------------
(* The listing endpoints: keyset pagination with a limit + 1 over-fetch.   *)

MaxListRows == 5

AbsentParam == Null

\* a query parameter read with ||, or tested with if (param): null and ""
\* are falsy
Truthy(param) == param.t = "string" /\ param.s # <<>>

\* Math.min(Math.max(parseInt(get("limit") || "20", radix), 1), max)
LimitOf(param, radix, max) ==
  MathMin(MathMax(ParseInt(IF Truthy(param) THEN param.s ELSE <<"2", "0">>, radix),
                  Num(1)),
          Num(max))

\* limit + 1
PlusOne(x) == IF x.k = "fin" THEN Num(x.n + 1) ELSE x

\* (data?.length ?? 0) > limit: false against NaN
LengthExceeds(data, limit) == limit.k = "fin" /\ Len(data) > limit.n

\* data.slice(0, limit)
SliceTo(data, n) == SubSeq(data, 1, IF Len(data) < n THEN Len(data) ELSE n)

Lower(c) == CASE c = "A" -> "a" [] c = "B" -> "b" [] OTHER -> c

RECURSIVE Like(_, _)
\* s ILIKE pattern, with % matching any run of characters
Like(s, pat) ==
  IF pat = <<>> THEN s = <<>>
  ELSE IF pat[1] = "%" THEN Like(s, Tail(pat)) \/ (s # <<>> /\ Like(Tail(s), pat))
  ELSE s # <<>> /\ Lower(s[1]) = Lower(pat[1]) /\ Like(Tail(s), Tail(pat))

\* `%${q}%`
Around(q) == <<"%">> \o q \o <<"%">>

RECURSIVE EncodeURIComponent(_)
\* of the characters used here only % is escaped, as %25
EncodeURIComponent(s) ==
  IF s = <<>> THEN <<>>
  ELSE (IF s[1] = "%" THEN <<"%", "2", "5">> ELSE <<s[1]>>) \o EncodeURIComponent(Tail(s))

\* the characters of the product ids of the model
Chars(p) ==
  CASE p = "pA" -> <<"p", "A">>
    [] p = "pB" -> <<"p", "B">>
    [] p = "pC" -> <<"p", "C">>
    [] OTHER -> <<>>

\* a before b in the ascending order on the listed columns
RowLess(order, a, b) ==
  CASE order = <<"record_id">> -> a.record_id < b.record_id
    [] order = <<"id">> -> a.id < b.id
    [] order = <<"category", "subcategory">> ->
         a.category < b.category
           \/ (a.category = b.category /\ a.subcategory < b.subcategory)

RECURSIVE InsertBy(_, _, _)
InsertBy(sorted, x, order) ==
  IF sorted = <<>> THEN <<x>>
  ELSE IF RowLess(order, x, sorted[1]) THEN <<x>> \o sorted
  ELSE <<sorted[1]>> \o InsertBy(Tail(sorted), x, order)

RECURSIVE OrderBy(_, _)
\* .order(...) ascending: rows with equal keys stay in the store's order
OrderBy(rows, order) ==
  IF rows = <<>> THEN <<>>
  ELSE InsertBy(OrderBy(SubSeq(rows, 1, Len(rows) - 1), order), rows[Len(rows)], order)

\* .limit(n): the first n rows.  What the store does with limit=NaN is not
\* the handlers' to decide: it either rejects the query or applies no limit.
Limited(rows, n) == IF n.k = "fin" THEN SliceTo(rows, n.n) ELSE rows

\* the query as it is logged, with the number of rows the store returned
ListQuery(table, order, limit, cursorOp, cursorCol, cursor, returned) ==
  [kind |-> "list", table |-> table, order |-> order, limit |-> limit,
   cursorOp |-> cursorOp, cursorCol |-> cursorCol, cursor |-> cursor,
   returned |-> returned]

\* a page built from the store's rows: trimmed to limit, nextCursor taken
\* from column cursorCol of the last retained row
PageOf(key, data, limit, cursorCol) ==
  LET hasMore == LengthExceeds(data, limit)
      page == IF hasMore THEN SliceTo(data, limit.n) ELSE data
  IN PageResp(key, page, IF hasMore THEN Num(page[Len(page)][cursorCol]) ELSE Null)

\* the answer to a listing query: a store failure, a rejected limit, or a page
ListOut(key, q, data, limit, cursorCol, fail, nanLimit) ==
  IF fail \/ (limit.k # "fin" /\ nanLimit = "rejected")
  THEN Out(ErrorResp(500, StoreError), <<[q EXCEPT !.returned = 0]>>)
  ELSE Out(PageOf(key, data, limit, cursorCol), <<q>>)

-----------------------------------------------------------------------------
(* GET /api/v1/records?q=&prnkOnly=1&product=&productLike=&limit=&cursor=  *)

\* the product list: the repeated parameters when there are several, else the
\* comma-separated pieces of the one parameter, empty pieces dropped
ProductList(params) ==
  IF Len(params) > 1 THEN [i \in 1..Len(params) |-> params[i][1]]
  ELSE SelectSeq(params[1], LAMBDA x : x # "")

\* searchParams.get("product") is a non-empty string
HasProduct(params) == params # <<>> /\ params[1] # <<"">>

RecordsFilter(r, x) ==
  LET list == ProductList(r.product)
  IN /\ Truthy(Str(r.q))
          => Like(Chars(x.product), <<"%">> \o EncodeURIComponent(Around(r.q)) \o <<"%">>)
     /\ r.prnkOnly = Str(<<"1">>) => x.prnk = 1
     /\ IF Truthy(r.productLike) THEN Like(Chars(x.product), Around(r.productLike.s))
        ELSE IF HasProduct(r.product) /\ Len(list) >= 1
        THEN \E i \in 1..Len(list) : list[i] = x.product
        ELSE TRUE

\* cursorParam ? Number(cursorParam) : undefined
RecordsCursor(param) == IF Truthy(param) THEN ToNumber(param) ELSE Undefined

RecordsGET(rows, r, fail, nanLimit) ==
  LET limit == LimitOf(r.limit, 10, 100)
      cursor == RecordsCursor(r.cursor)
      useCursor == cursor # Undefined /\ cursor.k # "nan"
      matching == SelectSeq(rows, LAMBDA x :
                    RecordsFilter(r, x) /\ (useCursor => x.record_id > cursor.n))
      ordered == OrderBy(matching, <<"record_id">>)
      data == [i \in 1..Len(Limited(ordered, PlusOne(limit))) |->
                 [record_id |-> Limited(ordered, PlusOne(limit))[i].record_id,
                  total_value |-> Limited(ordered, PlusOne(limit))[i].total_value]]
      q == ListQuery("records", <<"record_id">>, PlusOne(limit),
                     IF useCursor THEN "gt" ELSE "none", "record_id", cursor, Len(data))
  IN IF ~r.auth THEN Out(Unauthorized, <<>>)
     ELSE ListOut("records", q, data, limit, "record_id", fail, nanLimit)

-----------------------------------------------------------------------------
(* GET /api/v1/categories?q=&limit=&cursor=, over table records            *)

\* the store reads the cursor text as a value of the column's type
CursorValue(param) == StringToNumber(param.s)

CategoriesGET(rows, r, fail, nanLimit) ==
  LET limit == LimitOf(r.limit, 100, 1000)
      useCursor == Truthy(r.cursor)
      matching == SelectSeq(rows, LAMBDA x :
                    /\ x.prnk = 1
                    /\ (r.q # <<>> => Like(x.name, Around(r.q)))
                    /\ (useCursor => x.id < CursorValue(r.cursor).n))
      data == Limited(OrderBy(matching, <<"id">>), PlusOne(limit))
      q == ListQuery("records", <<"id">>, PlusOne(limit),
                     IF useCursor THEN "lt" ELSE "none", "id", r.cursor, Len(data))
  IN IF ~r.auth THEN Out(Unauthorized, <<>>)
     ELSE ListOut("records", q, data, limit, "id", fail, nanLimit)

-----------------------------------------------------------------------------
(* GET /api/v1/items?q=&limit=&cursor=, over table subcategories           *)

ItemsGET(rows, r, fail, nanLimit) ==
  LET limit == LimitOf(r.limit, 10, 100)
      useCursor == Truthy(r.cursor)
      matching == SelectSeq(rows, LAMBDA x :
                    /\ (r.q # <<>> => Like(x.name, Around(r.q)))
                    /\ (useCursor => x.created_at < CursorValue(r.cursor).n))
      data == Limited(OrderBy(matching, <<"category", "subcategory">>), PlusOne(limit))
      q == ListQuery("subcategories", <<"category", "subcategory">>, PlusOne(limit),
                     IF useCursor THEN "lt" ELSE "none", "created_at", r.cursor, Len(data))
  IN IF ~r.auth THEN Out(Unauthorized, <<>>)
     ELSE ListOut("items", q, data, limit, "created_at", fail, nanLimit)

-----------------------------------------------------------------------------
(* Listing requests, the client that follows nextCursor, and the           *)
(* specification of the listing endpoints                                  *)

\* a row of table records with its name and a value that tells it apart
NamedRow(rid, product, prnk, name, tv) ==
  [Row(rid, product, "c1", prnk, 100, Num(tv)) EXCEPT !.name = name]

ListPool ==
  { NamedRow(1, "pA", 1, <<"a">>, 10),
    NamedRow(2, "pB", 1, <<"b">>, 20),
    NamedRow(2, "pA", 1, <<"a", "B">>, 21),
    NamedRow(3, "pA", 0, <<"a">>, 30),
    NamedRow(4, "pB", 1, <<"b">>, 40),
    NamedRow(5, "pA", 1, <<"A">>, 50) }

\* the sequences of distinct members of S of length at most n
DistinctSeqsUpTo(S, n) ==
  {s \in SeqsUpTo(S, n) : \A i, j \in 1..Len(s) : s[i] = s[j] => i = j}

ListStores == {WithIds(s) : s \in DistinctSeqsUpTo(ListPool, MaxListRows)}

\* a row of table subcategories; category and subcategory stand for their
\* rank in the store's collation, created_at for the time in ticks
Subcategory(c, sc, name, at) ==
  [category |-> c, subcategory |-> sc, name |-> name, created_at |-> at]

SubcategoryPool ==
  { Subcategory(1, 1, <<"a">>, 3),
    Subcategory(1, 2, <<"b">>, 1),
    Subcategory(2, 1, <<"a", "B">>, 2),
    Subcategory(2, 2, <<"a">>, 4) }

SubcategoryTables == DistinctSeqsUpTo(SubcategoryPool, MaxListRows)

LimitParams ==
  { AbsentParam, Str(<<>>), Str(<<"a", "b">>), Str(<<"0">>), Str(<<"-", "3">>),
    Str(<<"2">>), Str(<<"2", "x">>), Str(<<"5", "0", "0", "0">>) }

ListRequest(auth, q, prnkOnly, product, productLike, limit) ==
  [auth |-> auth, q |-> q, prnkOnly |-> prnkOnly, product |-> product,
   productLike |-> productLike, limit |-> limit, cursor |-> AbsentParam]

Unfiltered(limit) == ListRequest(TRUE, <<>>, AbsentParam, <<>>, AbsentParam, limit)

\* a request that starts from a cursor the client already holds
Resumed(r, cursor) == [r EXCEPT !.cursor = cursor]

RecordsRequests ==
  {Unfiltered(l) : l \in LimitParams}
    \cup {ListRequest(TRUE, <<>>, Str(<<"1">>), <<>>, AbsentParam, Str(<<"2">>)),
          ListRequest(TRUE, <<>>, AbsentParam, <<<<"pA">>>>, AbsentParam, Str(<<"1">>)),
          ListRequest(TRUE, <<>>, AbsentParam, <<<<"pA">>, <<"pB">>>>, AbsentParam, Str(<<"2">>)),
          ListRequest(TRUE, <<>>, AbsentParam, <<<<"pB", "", "pA">>>>, AbsentParam, Str(<<"1">>)),
          ListRequest(TRUE, <<>>, AbsentParam, <<<<"">>>>, Str(<<"a">>), Str(<<"1">>)),
          ListRequest(TRUE, <<"a">>, AbsentParam, <<>>, AbsentParam, Str(<<"1">>)),
          ListRequest(FALSE, <<>>, AbsentParam, <<>>, AbsentParam, AbsentParam),
          Resumed(Unfiltered(Str(<<"2">>)), Str(<<"2">>))}

NameRequests ==
  {Unfiltered(l) : l \in LimitParams}
    \cup {ListRequest(TRUE, <<"b">>, AbsentParam, <<>>, AbsentParam, Str(<<"1">>)),
          ListRequest(FALSE, <<>>, AbsentParam, <<>>, AbsentParam, AbsentParam),
          Resumed(Unfiltered(Str(<<"2">>)), Str(<<"2">>))}

\* the next request of a client that pages on: the same parameters, with
\* cursor = the nextCursor of the response it holds
Following(endpoint) ==
  IF req.endpoint = "none" THEN {}
  ELSE IF req.endpoint = endpoint /\ resp.kind = "page" /\ resp.nextCursor # Null
  THEN {[req.params EXCEPT !.cursor = Str(IntToString(resp.nextCursor.n))]}
  ELSE {}

\* one GET: a first request, or the request that follows the last page;
\* start keeps the cursor of the first request
List(endpoint, r, out) ==
  /\ req' = [endpoint |-> endpoint, params |-> r,
             start |-> IF req.endpoint = "none" THEN r.cursor ELSE req.start]
  /\ resp' = out.resp
  /\ queries' = out.queries
  /\ acc' = IF out.resp.kind = "page" THEN Append(acc, out.resp) ELSE acc
  /\ pageNo' = pageNo + 1
  /\ UNCHANGED <<store, subcats>>

Requests(endpoint, first) == IF req.endpoint = "none" THEN first ELSE Following(endpoint)

RecordsListGET ==
  \E r \in Requests("records", RecordsRequests) :
    \E fail \in BOOLEAN, nanLimit \in {"rejected", "unlimited"} :
      List("records", r, RecordsGET(store, r, fail, nanLimit))

CategoriesListGET ==
  \E r \in Requests("categories", NameRequests) :
    \E fail \in BOOLEAN, nanLimit \in {"rejected", "unlimited"} :
      List("categories", r, CategoriesGET(store, r, fail, nanLimit))

ItemsListGET ==
  \E r \in Requests("items", NameRequests) :
    \E fail \in BOOLEAN, nanLimit \in {"rejected", "unlimited"} :
      List("items", r, ItemsGET(subcats, r, fail, nanLimit))

InitList ==
  /\ \/ store \in ListStores /\ subcats = <<>>
     \/ store = <<>> /\ subcats \in SubcategoryTables
  /\ req = [endpoint |-> "none"]
  /\ resp = NoResp
  /\ queries = <<>>
  /\ acc = <<>>
  /\ pageNo = 0

NextList ==
  \/ RecordsListGET
  \/ CategoriesListGET
  \/ ItemsListGET

SpecList == InitList /\ [][NextList]_vars

-----------------------------------------------------------------------------
(* Properties of the POST endpoints, stated over the store and the         *)
(* request, not over the handlers' intermediate values.                    *)

SeqRange(s) == {s[i] : i \in 1..Len(s)}

StoreRows == SeqRange(store)

\* the request carried a JSON number that is finite and above 0
TypedValid(b) == b.parsed /\ b.value.t = "number" /\ b.value.k = "fin" /\ b.value.n > 0

\* the rows of the band around v whose selector flag is set
BandRows(v) == {r \in StoreRows : r.prnk = 1 /\ 9 * v <= 10 * r.sell /\ 10 * r.sell <= 11 * v}

ResultIds == {resp.results[i].record_id : i \in 1..Len(resp.results)}

IsMatch == req.endpoint \in {"match", "match-grouped"}

\* the value the handler accepted
AcceptedValue == ToNumber(BodyValue(req.body)).n

\* C2: an iterative value-match request with a valid value and 0 to 3
\* non-empty product filters returns exactly the record_ids that have a band
\* row (prnk = 1, sell in [0.9v, 1.1v]) and, for every filter, a row with that
\* product; each carries a total_value of one of its band rows (null read as
\* 0), never a value of a row only a product query returned.
C2_MatchIsConjunction ==
  (/\ req.endpoint = "match"
   /\ req.body.auth
   /\ TypedValid(req.body)
   /\ req.body.products.isArray
   /\ Len(req.body.products.items) <= 3
   /\ \A i \in 1..Len(req.body.products.items) : req.body.products.items[i] # ""
   /\ resp.status # 500)
  => /\ resp.kind = "results"
     /\ ResultIds =
          {rid \in {r.record_id : r \in BandRows(req.body.value.n)} :
             \A i \in 1..Len(req.body.products.items) :
               \E r \in StoreRows :
                 r.record_id = rid /\ r.product = req.body.products.items[i]}
     /\ \A i \in 1..Len(resp.results) :
          \E r \in BandRows(req.body.value.n) :
            /\ r.record_id = resp.results[i].record_id
            /\ OrZero(r.total_value) = resp.results[i].total_value

\* C2 witness: two filters, and a record kept because a row outside the
\* band carries the second product
C2_Witness ==
  /\ req.endpoint = "match"
  /\ resp.kind = "results"
  /\ Len(req.body.products.items) = 2
  /\ Len(resp.results) = 1
  /\ \E r \in StoreRows \ BandRows(100) :
       r.record_id = resp.results[1].record_id /\ r.product = req.body.products.items[2]
  /\ ~\E r \in BandRows(100) :
       r.record_id = resp.results[1].record_id /\ r.product = req.body.products.items[2]

\* C3: a request with more than 3 products (value match) or more than 3
\* categories (category intersection) ends with status 400, at every handler.
C3_MoreThanThreeRejected ==
  /\ (IsMatch /\ req.body.auth /\ req.body.parsed /\ req.body.products.isArray
      /\ Len(req.body.products.items) > 3)
     => resp.status = 400
  /\ (req.endpoint = "intersect-by-category" /\ req.body.auth /\ req.body.parsed
      /\ req.body.categories.isArray /\ Len(req.body.categories.items) > 3)
     => resp.status = 400

\* the raw base rows of the answered request: the band rows, which the
\* single-fetch handler also restricts to the requested products
RawBaseRows ==
  LET ps == Slice3(BodyProducts(req.body))
  IN {r \in BandRows(AcceptedValue) :
        req.endpoint = "match-grouped" /\ ps # <<>> => r.product \in SeqRange(ps)}

NumericValues(rid) ==
  {r.total_value.n : r \in {x \in RawBaseRows : x.record_id = rid /\ IsNum(x.total_value)}}

\* C4: in a value-match response every record_id has exactly one entry and
\* the entry holds the maximum total_value among the record_id's raw base rows.
C4_MaxPerRecord ==
  (IsMatch /\ resp.kind = "results")
  => /\ \A i, j \in 1..Len(resp.results) :
          resp.results[i].record_id = resp.results[j].record_id => i = j
     /\ \A i \in 1..Len(resp.results) :
          LET vals == NumericValues(resp.results[i].record_id)
          IN vals # {} =>
               /\ resp.results[i].total_value.n \in vals
               /\ \A x \in vals : x <= resp.results[i].total_value.n

C7_InvalidValueRejected ==
  (req.endpoint \in {"match", "match-grouped", "by-value", "byvalue"} /\ req.body.auth)
  => /\ ~TypedValid(req.body) => (resp.status = 400 /\ queries = <<>>)
     /\ resp.status \in {200, 500} => TypedValid(req.body)

\* C9: every record_id a value match returns has a row with prnk = 1 and
\* sell in [0.9v, 1.1v]; without product filters every record_id with such a
\* row is returned.
C9_BandSound ==
  (IsMatch /\ resp.kind = "results")
  => /\ ResultIds \subseteq {r.record_id : r \in BandRows(AcceptedValue)}
     /\ BodyProducts(req.body) = <<>>
          => ResultIds = {r.record_id : r \in BandRows(AcceptedValue)}

\* C9 witness: value 100, no filters, sells 90, 100 and 110 on three records,
\* all three returned
C9_Witness ==
  /\ IsMatch
  /\ resp.kind = "results"
  /\ AcceptedValue = 100
  /\ BodyProducts(req.body) = <<>>
  /\ Len(resp.results) = 3
  /\ {r.sell : r \in StoreRows} = {90, 100, 110}

\* a >= b in the order of the responses; a null total_value, which only the
\* by-value responses can carry, is where the store puts it in a descending
\* order: before every number
ValueGeq(a, b) == IsNullish(a) \/ (~IsNullish(b) /\ a.n >= b.n)

-----------------------------------------------------------------------------
(* Properties of the listing endpoints *)

RECURSIVE Concatenated(_)
\* the rows of the pages received so far, in the order received
Concatenated(pages) ==
  IF pages = <<>> THEN <<>>
  ELSE Concatenated(SubSeq(pages, 1, Len(pages) - 1)) \o pages[Len(pages)].records

\* the full filtered result set of the listing the client pages through, in
\* the listing's sort order: what the store holds for the request's filters,
\* with no cursor and no limit
FullListing ==
  CASE req.endpoint = "records" ->
         LET rows == OrderBy(SelectSeq(store, LAMBDA x : RecordsFilter(req.params, x)),
                             <<"record_id">>)
         IN [i \in 1..Len(rows) |->
               [record_id |-> rows[i].record_id, total_value |-> rows[i].total_value]]
    [] req.endpoint = "categories" ->
         OrderBy(SelectSeq(store, LAMBDA x :
                   x.prnk = 1 /\ (req.params.q # <<>> => Like(x.name, Around(req.params.q)))),
                 <<"id">>)
    [] req.endpoint = "items" ->
         OrderBy(SelectSeq(subcats, LAMBDA x :
                   req.params.q # <<>> => Like(x.name, Around(req.params.q))),
                 <<"category", "subcategory">>)

\* the client has followed nextCursor from a first request without cursor to a response
\* whose nextCursor is null, and every response was a page
PagedToEnd ==
  /\ req.endpoint \in {"records", "categories", "items"}
  /\ req.start = AbsentParam
  /\ resp.kind = "page"
  /\ resp.nextCursor = Null
  /\ Len(acc) = pageNo

\* C1: over an unchanged store and unchanged filters and limit, the pages
\* from the first request to the response with nextCursor = null, put
\* together, are the full filtered result set in the listing's order, every
\* row once.
C1_PagesComplete == PagedToEnd => Concatenated(acc) = FullListing

\* the configured maximum of the endpoint's limit
MaxLimit == IF req.endpoint = "categories" THEN 1000 ELSE 100

ListAnswered ==
  /\ req.endpoint \in {"records", "categories", "items"}
  /\ queries # <<>>

\* the keys of the listing's first sort column, in the full result
SortKeys == [i \in 1..Len(FullListing) |-> FullListing[i][queries[1].order[1]]]

\* C5: a page request with effective limit L asks the store for L + 1 rows,
\* returns at most L rows, and returns nextCursor = the sort column's value
\* in the last retained row (the column the cursor is compared on) when the
\* store returned more than L rows, null otherwise; limit=2 over 5 rows in
\* ascending id order gives pages of 2, 2 and 1 rows with nextCursor id2,
\* id4, null.
C5_PageAndNextCursor ==
  /\ (ListAnswered /\ resp.kind = "page")
     => /\ queries[1].limit.k = "fin"
        /\ Len(resp.records) <= queries[1].limit.n - 1
        /\ IF queries[1].returned > queries[1].limit.n - 1
           THEN /\ resp.nextCursor =
                     Num(resp.records[Len(resp.records)][queries[1].order[1]])
                /\ queries[1].cursorCol = queries[1].order[1]
           ELSE resp.nextCursor = Null
  /\ (/\ PagedToEnd
      /\ req.endpoint \in {"records", "categories"}
      /\ req.params.limit = Str(<<"2">>)
      /\ Len(FullListing) = 5
      /\ \A i \in 1..4 : SortKeys[i] < SortKeys[i + 1])
     => /\ Len(acc) = 3
        /\ Len(acc[1].records) = 2 /\ acc[1].nextCursor = Num(SortKeys[2])
        /\ Len(acc[2].records) = 2 /\ acc[2].nextCursor = Num(SortKeys[4])
        /\ Len(acc[3].records) = 1 /\ acc[3].nextCursor = Null

\* C8: whatever the limit parameter is, the limit the store is asked with
\* and the page is trimmed to is an integer in [1, max] of the endpoint, and
\* 20 when the parameter is absent.
C8_LimitClamped ==
  ListAnswered
  => /\ queries[1].limit.k = "fin"
     /\ queries[1].limit.n - 1 \in 1..MaxLimit
     /\ req.params.limit = AbsentParam => queries[1].limit.n - 1 = 20

-----------------------------------------------------------------------------
(* Properties of the value-match handlers: failures, the order of the      *)
(* store queries, the working set, the aggregation, the two handlers.      *)

\* the store failed a query of the answered request: query number failAt
\* was issued
QueryFailed == req.failAt >= 1 /\ Len(queries) >= req.failAt

\* C11: when a store query of a value-match request fails (the base range
\* fetch or a product fetch), the response is status 500 with the store's
\* error message and no results, and the failed query is the last query of
\* the request: none is issued after it and it is not issued again.
C11_FailureAborts ==
  (IsMatch /\ QueryFailed)
  => /\ resp = ErrorResp(500, StoreError)
     /\ "results" \notin DOMAIN resp
     /\ Len(queries) = req.failAt

\* C11 witness: the second product fetch of an iterative request failed,
\* after a base fetch and a first product fetch that left a working set
C11_Witness ==
  /\ req.endpoint = "match"
  /\ req.failAt = 3
  /\ Len(queries) = 3
  /\ queries[3].kind = "product"
  /\ resp.status = 500

\* the product filters of the answered request: the non-empty entries
Filters == SelectSeq(BodyProducts(req.body), LAMBDA p : p # "")

\* the working set after the first k filters: the record_ids of the band
\* that have a row for each of them
WorkingSet(k) ==
  {rid \in {r.record_id : r \in BandRows(AcceptedValue)} :
     \A i \in 1..k : \E r \in StoreRows : r.record_id = rid /\ r.product = Filters[i]}

\* C13: the queries of an iterative value-match request are the base range
\* fetch, then product fetches for the filters in the order given, one
\* each.  The fetch for filter k + 1 is issued only when the working set
\* after k filters (the base set for k = 0) is not empty; a request that
\* stopped before its last filter answers with an empty result list.
C13_QueriesInOrder ==
  (req.endpoint = "match" /\ queries # <<>>)
  => LET n == Len(queries) - 1
     IN /\ queries[1].kind = "range"
        /\ n <= Len(Filters)
        /\ \A i \in 1..n : queries[i + 1] = ProductQuery(Filters[i])
        /\ \A k \in 0..(n - 1) : WorkingSet(k) # {}
        /\ resp.kind = "results"
           => /\ n < Len(Filters) => WorkingSet(n) = {} /\ resp.results = <<>>
              /\ WorkingSet(n) = {} => resp.results = <<>>

\* C13 witness: three filters, the working set empty after the second, and
\* no fetch for the third
C13_Witness ==
  /\ req.endpoint = "match"
  /\ resp.kind = "results"
  /\ Len(Filters) = 3
  /\ Len(queries) = 3
  /\ WorkingSet(1) # {}
  /\ WorkingSet(2) = {}
  /\ resp.results = <<>>

\* the answered request with its product list cut to the first k entries
Prefix(k) == [req.body EXCEPT !.products.items = SubSeq(@, 1, k)]

\* the answer of the same handler to that request over the same store,
\* with no store failure
PrefixResp(k) ==
  IF req.endpoint = "match" THEN MatchIterative(store, Prefix(k), 0).resp
  ELSE MatchGrouped(store, Prefix(k), 0).resp

IdsOf(r) == {r.results[i].record_id : i \in 1..Len(r.results)}

\* C14: the result of a value-match request with k2 <= 3 filters is a
\* subset of, and no larger than, the result of the request with the first
\* k1 < k2 of these filters over the same store; with k1 = 0 that is the
\* base candidate set.
C14_WorkingSetShrinks ==
  (/\ IsMatch
   /\ resp.kind = "results"
   /\ Len(BodyProducts(req.body)) <= 3)
  => \A k1 \in 0..(Len(BodyProducts(req.body)) - 1) :
       /\ PrefixResp(k1).kind = "results"
       /\ ResultIds \subseteq IdsOf(PrefixResp(k1))
       /\ Len(resp.results) <= Len(PrefixResp(k1).results)
       /\ IdsOf(PrefixResp(k1)) \subseteq {r.record_id : r \in BandRows(AcceptedValue)}

\* C14 witness: an iterative request with two filters whose result is not
\* empty and smaller than the result of its first filter alone
C14_Witness ==
  /\ req.endpoint = "match"
  /\ resp.kind = "results"
  /\ Len(BodyProducts(req.body)) = 2
  /\ resp.results # <<>>
  /\ Len(resp.results) < Len(PrefixResp(1).results)

\* the rearrangements of a sequence
Rearranged(s) ==
  {[i \in 1..Len(s) |-> s[f[i]]] :
     f \in {g \in [1..Len(s) -> 1..Len(s)] : \A i, j \in 1..Len(s) : g[i] = g[j] => i = j}}

\* a Map record_id -> total_value as its set of pairs
Pairs(m) == {<<m[i].key, m[i].val>>  : i \in 1..Len(m)}

\* the same for the Map record_id -> {set, maxTotal}
MaxTotals(m) == {<<m[i].key, m[i].val.maxTotal>> : i \in 1..Len(m)}

\* the entries of an aggregated Map read as raw rows again
AsRows(pairs) ==
  LET one(pr) == [record_id |-> pr[1], product |-> "", total_value |-> pr[2]]
  IN {s \in SeqsUpTo({one(pr) : pr \in pairs}, Cardinality(pairs)) :
        Len(s) = Cardinality(pairs) /\ {s[i] : i \in 1..Len(s)} = {one(pr) : pr \in pairs}}

\* the raw base rows the answered request's handler aggregates, as fetched
FetchedBaseRows ==
  LET v == ToNumber(BodyValue(req.body))
  IN IF req.endpoint = "match" THEN RangeRows(store, MinSell10(v), MaxSell10(v))
     ELSE GroupedBaseRows(store, MinSell10(v), MaxSell10(v), Slice3(BodyProducts(req.body)))

\* the aggregation of the answered request's handler, as a set of pairs
Aggregated(rows) ==
  IF req.endpoint = "match" THEN Pairs(BaseValueById(rows))
  ELSE IF Slice3(BodyProducts(req.body)) # <<>> THEN MaxTotals(GroupByRecord(rows))
  ELSE Pairs(MaxByRecord(rows))

\* C15: the aggregation of the raw base rows of a value-match request into
\* the pairs (record_id, total_value) gives the same pairs for every
\* rearrangement of the rows, and the same pairs again when it is applied
\* to the rows of its own result.
C15_AggregationOrderIndependent ==
  (IsMatch /\ queries # <<>> /\ ~QueryFailed)
  => /\ \A p \in Rearranged(FetchedBaseRows) :
          Aggregated(p) = Aggregated(FetchedBaseRows)
     /\ \A again \in AsRows(Aggregated(FetchedBaseRows)) :
          Aggregated(again) = Aggregated(FetchedBaseRows)

\* the answer of the other value-match handler to the answered request,
\* over the same store, with no store failure
OtherHandlerResp ==
  IF req.endpoint = "match" THEN MatchGrouped(store, req.body, 0).resp
  ELSE MatchIterative(store, req.body, 0).resp

ResultPairs(r) == {<<r.results[i].record_id, r.results[i].total_value>> : i \in 1..Len(r.results)}

\* a valid value-match request with 0 to 3 products, answered with results
ValidMatchAnswered ==
  /\ IsMatch
  /\ req.body.auth
  /\ TypedValid(req.body)
  /\ Len(BodyProducts(req.body)) <= 3
  /\ \A i \in 1..Len(BodyProducts(req.body)) : BodyProducts(req.body)[i] # ""
  /\ resp.kind = "results"

\* C16: for every store and every valid value-match request with 0 to 3
\* products, the single-fetch grouping handler and the iterative handler
\* return the same set of (record_id, total_value) results.
C16_HandlersAgree ==
  ValidMatchAnswered
  => /\ OtherHandlerResp.kind = "results"
     /\ ResultPairs(OtherHandlerResp) = ResultPairs(resp)

-----------------------------------------------------------------------------
(* Properties of the listing endpoints: the cursor boundary *)

\* the answered listing request carried a cursor that reads as a number
CursorSupplied ==
  /\ ListAnswered
  /\ Truthy(req.params.cursor)
  /\ StringToNumber(req.params.cursor.s).k = "fin"

\* C12: every listing is ordered ascending by its sort key, so when a cursor
\* is supplied the store is asked for sort key > cursor, on the first sort
\* column itself, and no returned row has a sort key at or before the
\* cursor.
C12_StrictlyPastCursor ==
  CursorSupplied
  => /\ queries[1].cursorOp = "gt"
     /\ queries[1].cursorCol = queries[1].order[1]
     /\ resp.kind = "page"
        => \A i \in 1..Len(resp.records) :
             resp.records[i][queries[1].order[1]]
               > StringToNumber(req.params.cursor.s).n

====
